---- MODULE Spec2Model ----
(***************************************************************************)
(* The two EatonEMAT drivers of the pdu repository as one state machine:   *)
(* the raw-TCP driver (src/EMAT08_10.py) and the Telnet driver             *)
(* (src/emat08_10.py).  `driver` is fixed in Init and says which of the    *)
(* two classes the instance is.  Callers are threads that execute the      *)
(* public operations; a step of a caller is one interaction with the       *)
(* shared instance (a check, the section under the lock, the read of the   *)
(* reply slot).  The peer (the PDU) is the environment: it answers the     *)
(* commands it has received, in order, whenever it likes.                  *)
(***************************************************************************)
EXTENDS Integers, Sequences, FiniteSets, TLC

\* ------------------------------------------------------------------ bounds
\* Outlets of the simulated PDU (what it answers to the outlet-count query).
DeviceOutlets == 2
\* Transports one run may open (connect() calls that reach the network).
MaxConns == 2
\* Commands the peer holds unanswered; an older one is never answered.
MaxPending == 1
\* Responses the peer has sent that the driver has not read yet.
MaxRx == 1
\* Reads of one run that end on their deadline before the peer's answer
\* arrives.  On the raw-TCP stream the answer may still arrive later; a
\* command the Telnet peer has not answered by the deadline is taken as lost.
MaxTimeouts == 1

Threads == {1, 2}
NoThread == 0
NoHandle == 0

\* ------------------------------------------------------------------ values
\* str(i) of the outlet indices and counts the model uses.
Str(i) ==
    CASE i = 0 -> "0" [] i = 1 -> "1" [] i = 2 -> "2" [] i = 3 -> "3"
      [] i = 4 -> "4" [] i = 5 -> "5" [] OTHER -> "6"

Digits == {"0", "1", "2", "3", "4", "5", "6"}

\* isinstance(n, int) of an outlet argument; arguments are written as str(n)
\* writes them into a template: "1", "x", "None" (omitted), "y" (another string).
IsInt(n) == n \in Digits

\* int(s) of a decimal field; partial, defined on Digits only.
IntOf(s) ==
    CASE s = "0" -> 0 [] s = "1" -> 1 [] s = "2" -> 2 [] s = "3" -> 3
      [] s = "4" -> 4 [] s = "5" -> 5 [] OTHER -> 6

\* A command as written to the wire: the template and what format() put in it.
NoCmd == [tpl |-> "", n |-> "", p |-> ""]
\* A template sent as it stands, its {n} left unsubstituted.
Cmd_unsubstituted(tpl, n, p) == [tpl |-> tpl, n |-> "", p |-> p]
Cmd(tpl, n, p) == [tpl |-> tpl, n |-> n, p |-> p]

\* Whose command a piece of text answers.
NoTag == [by |-> NoThread, cmd |-> NoCmd]
Tag(t, c) == [by |-> t, cmd |-> c]

\* One token of the text stream.  k: "echo" (the command line echoed), "val"
\* (a payload line, `line` its pipe-delimited fields), "eol", "prompt", and
\* "none" for Python's None where a text is expected.
Tok(tag, k, line) == [of |-> tag, k |-> k, line |-> line]
NoneText == <<Tok(NoTag, "none", <<>>)>>
EmptyText == <<>>

\* Return values of the public operations.
RetTrue == [k |-> "True", v |-> <<>>]
RetFalse == [k |-> "False", v |-> <<>>]
RetNone == [k |-> "None", v |-> <<>>]
RetRaise == [k |-> "raise", v |-> <<>>]
NoRet == [k |-> "", v |-> <<>>]
RetText(v) == IF v = NoneText THEN RetNone ELSE [k |-> "text", v |-> v]

\* ------------------------------------------------------------------ the peer
NameOf(i) == CASE i = 1 -> "A" [] i = 2 -> "B" [] i = 3 -> "C" [] OTHER -> "D"
StatusOf(i) == IF i % 2 = 1 THEN "1" ELSE "0"

SetTemplates == {"cmd_outlet_on", "cmd_outlet_off", "cmd_reset_statistics",
                 "cmd_set_auto_restart"}

\* The payload line the PDU answers a command with: its pipe-delimited fields,
\* or <<>> when the answer has no payload line (a set command).
DeviceValue(c) ==
    CASE c.tpl \in SetTemplates -> <<>>
      [] c.tpl \in {"cmd_outlet_count", "get_device_commands.outlet_count"} ->
            <<Str(DeviceOutlets)>>
      [] c.tpl = "cmd_device_manufacturer" -> <<"EATON">>
      [] c.tpl \in {"cmd_device_model", "get_device_commands.model"} -> <<"EMAT">>
      [] c.tpl = "cmd_firmware_ver" -> <<"v1">>
      [] c.tpl = "cmd_serial_number" -> <<"SN">>
      [] c.tpl = "cmd_name" /\ c.n = "x" -> [i \in 1..DeviceOutlets |-> NameOf(i)]
      [] c.tpl \in {"cmd_outlet_status", "get_outlet_commands.outlet_status"}
            /\ c.n = "x" -> [i \in 1..DeviceOutlets |-> StatusOf(i)]
      [] c.tpl \in {"cmd_outlet_status", "get_outlet_commands.outlet_status"}
            /\ IsInt(c.n) /\ IntOf(c.n) \in 1..DeviceOutlets ->
            <<StatusOf(IntOf(c.n))>>
      [] OTHER -> <<"Err">>

\* The bytes of one response: echo, payload line if any, prompt.
Flatten1(r) ==
    <<Tok(r.of, "echo", <<>>), Tok(r.of, "eol", <<>>)>>
    \o (IF r.val = <<>> THEN <<>>
        ELSE <<Tok(r.of, "val", r.val), Tok(r.of, "eol", <<>>)>>)
    \o <<Tok(r.of, "prompt", <<>>)>>

RECURSIVE Flatten(_)
Flatten(rs) == IF rs = <<>> THEN <<>> ELSE Flatten1(Head(rs)) \o Flatten(Tail(rs))

\* ------------------------------------------------------------------ text
\* data.split(self._eol): the segments between line terminators.
RECURSIVE SplitEol(_)
SplitEol(d) ==
    IF d = <<>> THEN << <<>> >>
    ELSE LET rest == SplitEol(Tail(d)) IN
         IF Head(d).k = "eol" THEN << <<>> >> \o rest
         ELSE << <<Head(d)>> \o Head(rest) >> \o Tail(rest)

\* self._prompt_re.search(buff) with rb"[>#]\s*$" and re.MULTILINE: a prompt
\* character that ends a line or the buffer.
PromptMatch(buff) ==
    \E i \in 1..Len(buff) :
        /\ buff[i].k = "prompt"
        /\ (i = Len(buff) \/ buff[i + 1].k = "eol")

\* data.split(self._eol)[-2].split('\r')[0] raises IndexError when data holds
\* no line terminator.
HasReplyLine(data) == Len(SplitEol(data)) >= 2
ReplyLine(data) == SplitEol(data)[Len(SplitEol(data)) - 1]

\* int(text) succeeds: text is one payload line of one decimal field.  None
\* (TypeError), the empty string, an echo or a prompt (ValueError) do not.
IsNumeric(text) ==
    /\ Len(text) = 1
    /\ text[1].k = "val"
    /\ Len(text[1].line) = 1
    /\ text[1].line[1] \in Digits
IntOfText(text) == IntOf(text[1].line[1])

\* text.split("|").  A payload line is held as its fields; "" gives [""]; an
\* echo or a prompt holds no "|" and is one field, "~" here.
SplitPipe(text) ==
    IF text = <<>> THEN <<"">>
    ELSE IF Len(text) = 1 /\ text[1].k = "val" THEN text[1].line
    ELSE <<"~">>

\* The leading fields int() accepts, converted: the loop of initialize()
\* appends them one by one and raises at the first field int() rejects.
RECURSIVE LeadingInts(_)
LeadingInts(fs) ==
    IF fs = <<>> \/ Head(fs) \notin Digits THEN <<>>
    ELSE <<IntOf(Head(fs))>> \o LeadingInts(Tail(fs))

\* ------------------------------------------------------------------ state
VARIABLES
    driver,         \* "tcp": src/EMAT08_10.py, "telnet": src/emat08_10.py
    callers,        \* the threads that call the instance
    override,       \* a cmd_* template attribute the caller has reassigned
    connected,      \* the base class's connected flag (is_connected())
    lock,           \* self.lock: the thread inside `with self.lock`
    holder,         \* the thread that entered `with self.lock` most recently
    sock,           \* tcp: self._sock
    reader,         \* telnet: self._reader
    writer,         \* telnet: self._writer
    loop,           \* telnet: self._loop / self._loop_thread exist
    loops,          \* telnet: loop threads started by the instance and running
    opened,         \* transports opened by this instance and not closed
    rx,             \* responses sent by the peer on the held transport, unread
    pending,        \* commands the peer has received and not answered
    timeouts,       \* reads that ended on their deadline so far
    last_reply,     \* telnet: self._last_reply
    initialized, outlet_count, outlet_names, outlet_onoff,
    manufacturer, model, version, serial,
    pc,             \* where each caller is
    call,           \* the public operation a caller is in
    stage,          \* initialize(): which of its seven queries
    ret,            \* what the operation returned
    wrote,          \* what the operation has written to the transport
    pre,            \* the outlet state cache when the operation was called
    clock,          \* ticks since the reply read in progress began
    wait,           \* ticks the blocking call in progress has waited
    buff            \* what the reply read in progress has accumulated

connVars == <<connected, sock, reader, writer, loop, loops, opened>>
wireVars == <<rx, pending, timeouts>>
cacheVars == <<initialized, outlet_count, outlet_names, outlet_onoff,
               manufacturer, model, version, serial>>
thVars == <<pc, call, stage, ret, wrote, pre>>
timeVars == <<clock, wait, buff>>
vars == <<driver, callers, override, connVars, lock, holder, wireVars, last_reply, cacheVars, thVars,
          timeVars>>

\* The cmd_* attributes are plain attributes that a caller may reassign.  No
\* override, and the overrides the callers try: a text with a single "{"
\* (str.format raises ValueError) and one that names a placeholder the
\* operations do not supply (KeyError).
NoOverride == [tpl |-> "", text |-> <<>>]
Overridable == {"cmd_outlet_on", "cmd_outlet_status", "cmd_device_model"}
BadTexts == { <<"on ", "{">>, <<"on ", "{m}">> }

\* text.format(n=n) returns: every replacement field of the text is {n}.
WellFormed(text) == \A i \in 1..Len(text) : text[i] \notin {"{", "{m}"}

\* self.<tpl>.format(n=n) raises.
FormatRaises(tpl) == override.tpl = tpl /\ ~WellFormed(override.text)

Cache ==
    [initialized |-> initialized, outlet_count |-> outlet_count,
     outlet_names |-> outlet_names, outlet_onoff |-> outlet_onoff,
     manufacturer |-> manufacturer, model |-> model,
     version |-> version, serial |-> serial]

SetCache(c) ==
    /\ initialized' = c.initialized
    /\ outlet_count' = c.outlet_count
    /\ outlet_names' = c.outlet_names
    /\ outlet_onoff' = c.outlet_onoff
    /\ manufacturer' = c.manufacturer
    /\ model' = c.model
    /\ version' = c.version
    /\ serial' = c.serial

NoCall == [op |-> "", item |-> "", n |-> "", cmd |-> NoCmd]
NoPre == <<>>

\* The state after construction.
InitState ==
    /\ driver \in {"tcp", "telnet"}
    /\ connected = FALSE
    /\ override = NoOverride
    /\ lock = NoThread
    /\ holder = NoThread
    /\ sock = NoHandle
    /\ reader = NoHandle
    /\ writer = NoHandle
    /\ loop = FALSE
    /\ loops = 0
    /\ opened = {}
    /\ rx = <<>>
    /\ pending = <<>>
    /\ timeouts = 0
    /\ last_reply = NoneText
    /\ initialized = FALSE
    /\ outlet_count = 0
    /\ outlet_names = <<>>
    /\ outlet_onoff = <<>>
    /\ manufacturer = EmptyText
    /\ model = EmptyText
    /\ version = EmptyText
    /\ serial = EmptyText
    /\ pc = [t \in Threads |-> "idle"]
    /\ call = [t \in Threads |-> NoCall]
    /\ stage = [t \in Threads |-> 0]
    /\ ret = [t \in Threads |-> NoRet]
    /\ wrote = [t \in Threads |-> <<>>]
    /\ pre = [t \in Threads |-> NoPre]
    /\ clock = 0
    /\ wait = 0
    /\ buff = <<>>

\* One caller at a time.
Init == InitState /\ callers = {1}
\* Two callers on the one instance.
InitConc == InitState /\ callers = Threads

\* --------------------------------------------------------- caller bookkeeping
\* A public operation is entered: by an idle caller.
CanCall(t) == t \in callers /\ pc[t] = "idle"

\* The operation returns r at once (a validation failure, connect, disconnect).
Returns(t, c, r, w) ==
    /\ pc' = [pc EXCEPT ![t] = "ret"]
    /\ call' = [call EXCEPT ![t] = c]
    /\ ret' = [ret EXCEPT ![t] = r]
    /\ wrote' = [wrote EXCEPT ![t] = w]
    /\ pre' = [pre EXCEPT ![t] = Cache]
    /\ stage' = stage

\* The operation passed its validation and goes on to _send_command(c.cmd).
Proceeds(t, c, st) ==
    /\ pc' = [pc EXCEPT ![t] = "cmd"]
    /\ call' = [call EXCEPT ![t] = c]
    /\ stage' = [stage EXCEPT ![t] = st]
    /\ pre' = [pre EXCEPT ![t] = Cache]
    /\ UNCHANGED <<ret, wrote>>

\* The operation builds its command with self.<tpl>.format(n=n) and goes on
\* to _send_command; the exception of format leaves the operation.
Formatted(t, c, st) ==
    IF FormatRaises(c.cmd.tpl) THEN Returns(t, c, RetRaise, <<>>)
    ELSE Proceeds(t, c, st)

\* The caller assigns a text to one of the cmd_* attributes.
SetTemplate ==
    /\ override = NoOverride
    /\ \A t \in callers : pc[t] = "idle"
    /\ \E tpl \in Overridable, text \in BadTexts :
        override' = [tpl |-> tpl, text |-> text]
    /\ UNCHANGED <<driver, callers, connVars, lock, holder, wireVars, last_reply, cacheVars,
                   thVars, timeVars>>

\* The caller has taken the result and is idle again.
Return(t) ==
    /\ t \in callers
    /\ pc[t] = "ret"
    /\ pc' = [pc EXCEPT ![t] = "idle"]
    /\ call' = [call EXCEPT ![t] = NoCall]
    /\ stage' = [stage EXCEPT ![t] = 0]
    /\ ret' = [ret EXCEPT ![t] = NoRet]
    /\ wrote' = [wrote EXCEPT ![t] = <<>>]
    /\ pre' = [pre EXCEPT ![t] = NoPre]
    /\ UNCHANGED <<driver, callers, override, timeVars, connVars, lock, holder, wireVars, last_reply, cacheVars>>

\* --------------------------------------------------------------- the peer
\* The command c of caller t reaches the peer.
Received(t, c) ==
    IF Len(pending) < MaxPending THEN Append(pending, Tag(t, c))
    ELSE Append(Tail(pending), Tag(t, c))

\* The PDU answers the oldest command it holds.
DeviceRespond ==
    /\ pending # <<>>
    /\ Len(rx) < MaxRx
    /\ rx' = Append(rx, [of |-> Head(pending), val |-> DeviceValue(Head(pending).cmd)])
    /\ pending' = Tail(pending)
    /\ UNCHANGED <<driver, callers, override, timeVars, connVars, lock, holder, timeouts, last_reply, cacheVars, thVars>>

\* Loop threads after which no further one is started.
MaxLoops == 2

\* EatonEMAT._ensure_loop run without interruption: the loop held is
\* returned, or a loop and its thread are started and held.
EnsureLoop ==
    /\ loop \/ loops < MaxLoops
    /\ loop' = TRUE
    /\ loops' = IF loop THEN loops ELSE loops + 1

\* The handle of a transport being opened: one not open at the moment.
NewHandle == CHOOSE h \in 1..MaxConns : h \notin opened

\* ------------------------------------------------- raw TCP: connect, disconnect
ConnectCall == [NoCall EXCEPT !.op = "connect"]
\* connect() that ended at `step`: "validation", "open", "login" (the login
\* exchange, the readiness wait, the wait of _run), or "" when it succeeded.
ConnectEnded(step) == [ConnectCall EXCEPT !.item = step]
\* connect(host, port, username=, password=): which credentials were supplied.
ConnectWith(step, user, pass) ==
    [ConnectEnded(step) EXCEPT !.cmd = Cmd("<login>", IF user THEN "username" ELSE "",
                                           IF pass THEN "password" ELSE "")]
DisconnectCall == [NoCall EXCEPT !.op = "disconnect"]

\* EatonEMAT.connect.  valid: validate_connection_params; refused:
\* socket.create_connection raises socket.timeout or socket.error.
Tcp_connect(t) ==
    /\ driver = "tcp"
    /\ CanCall(t)
    /\ \E valid \in BOOLEAN, refused \in BOOLEAN :
        IF ~valid THEN
            /\ refused
            /\ Returns(t, ConnectEnded("validation"), RetFalse, <<>>)
            /\ UNCHANGED <<connVars, wireVars>>
        ELSE IF refused THEN
            /\ sock' = NoHandle
            /\ connected' = FALSE
            /\ rx' = <<>>
            /\ pending' = <<>>
            /\ timeouts' = timeouts
            /\ Returns(t, ConnectEnded("open"), RetFalse, <<>>)
            /\ UNCHANGED <<reader, writer, loop, loops, opened>>
        ELSE
            /\ Cardinality(opened) < MaxConns
            /\ opened' = opened \cup {NewHandle}
            /\ sock' = NewHandle
            /\ connected' = TRUE
            /\ rx' = <<>>
            /\ pending' = <<>>
            /\ timeouts' = timeouts
            /\ Returns(t, ConnectEnded(""), RetTrue, <<>>)
            /\ UNCHANGED <<reader, writer, loop, loops>>
    /\ UNCHANGED <<driver, callers, override, timeVars, lock, holder, last_reply, cacheVars>>

\* A transport left open where close() was due.
Closed_never(h) == opened

\* close() of the handle the driver holds, if it holds one: the transports
\* that remain open.
Closed(h) == IF h # NoHandle THEN opened \ {h} ELSE opened

\* EatonEMAT.disconnect.
Tcp_disconnect(t) ==
    /\ driver = "tcp"
    /\ CanCall(t)
    /\ opened' = Closed(sock)
    /\ sock' = NoHandle
    /\ connected' = FALSE
    /\ rx' = <<>>
    /\ pending' = <<>>
    /\ timeouts' = timeouts
    /\ Returns(t, DisconnectCall, RetNone, <<>>)
    /\ UNCHANGED <<reader, writer, loop, loops>>
    /\ UNCHANGED <<driver, callers, override, timeVars, lock, holder, last_reply, cacheVars>>

\* A read that finds nothing while the peer still owes an answer ends on its
\* deadline.
IsTimeout == rx = <<>> /\ pending # <<>>
TimeoutAllowed == IsTimeout => timeouts < MaxTimeouts
TimeoutCount == IF IsTimeout THEN timeouts + 1 ELSE timeouts

\* ------------------------------------------------------ raw TCP: the commands
BoolOps == {"outlet_on", "outlet_off", "reset_statistics", "set_autostart"}
TextOps == {"outlet_status", "get_atomic_value", "get_item"}

\* Outlet indices the callers try: 0, the PDU's outlets, and one past them.
IntArgs == 0..(DeviceOutlets + 1)

OpCall(op, item, n, c) == [op |-> op, item |-> item, n |-> n, cmd |-> c]

\* The operation returns r; it has written what `wrote` holds.
Finish(t, r) ==
    /\ pc' = [pc EXCEPT ![t] = "ret"]
    /\ ret' = [ret EXCEPT ![t] = r]
    /\ UNCHANGED <<call, stage, pre>>

Goto(t, where) ==
    /\ pc' = [pc EXCEPT ![t] = where]
    /\ UNCHANGED <<call, stage, ret, pre>>

\* EatonEMAT.outlet_on (tcp).
Tcp_outlet_on(t) ==
    /\ driver = "tcp"
    /\ CanCall(t)
    /\ \E n \in IntArgs :
        LET c == OpCall("outlet_on", "", Str(n), Cmd("cmd_outlet_on", Str(n), "")) IN
        IF n < 1 THEN Returns(t, c, RetFalse, <<>>) ELSE Formatted(t, c, 0)
    /\ UNCHANGED <<driver, callers, override, timeVars, connVars, lock, holder, wireVars, last_reply, cacheVars>>

\* EatonEMAT.outlet_off (tcp).
Tcp_outlet_off(t) ==
    /\ driver = "tcp"
    /\ CanCall(t)
    /\ \E n \in IntArgs :
        LET c == OpCall("outlet_off", "", Str(n), Cmd("cmd_outlet_off", Str(n), "")) IN
        IF n < 1 THEN Returns(t, c, RetFalse, <<>>) ELSE Formatted(t, c, 0)
    /\ UNCHANGED <<driver, callers, override, timeVars, connVars, lock, holder, wireVars, last_reply, cacheVars>>

\* EatonEMAT.outlet_status (tcp).
Tcp_outlet_status(t) ==
    /\ driver = "tcp"
    /\ CanCall(t)
    /\ \E n \in IntArgs :
        LET c == OpCall("outlet_status", "", Str(n),
                        Cmd("cmd_outlet_status", Str(n), "")) IN
        IF n < 1 THEN Returns(t, c, RetNone, <<>>) ELSE Formatted(t, c, 0)
    /\ UNCHANGED <<driver, callers, override, timeVars, connVars, lock, holder, wireVars, last_reply, cacheVars>>

\* EatonEMAT.get_atomic_value (tcp): "model" and "firmware" are the items.
Tcp_get_atomic_value(t) ==
    /\ driver = "tcp"
    /\ CanCall(t)
    /\ \E item \in {"model", "firmware", "bogus"} :
        LET tpl == CASE item = "model" -> "cmd_device_model"
                     [] item = "firmware" -> "cmd_firmware_ver"
                     [] OTHER -> ""
            c == OpCall("get_atomic_value", item, "", Cmd(tpl, "", "")) IN
        IF tpl = "" THEN Returns(t, c, RetNone, <<>>) ELSE Proceeds(t, c, 0)
    /\ UNCHANGED <<driver, callers, override, timeVars, connVars, lock, holder, wireVars, last_reply, cacheVars>>

\* The connected check left out: every session taken as connected.
TcpNotConnected_never == FALSE

\* not self.is_connected() or self._sock is None
TcpNotConnected == ~connected \/ sock = NoHandle

\* EatonEMAT._send_command (tcp): the connected check, then sendall() under
\* the lock.  ok: sendall did not raise socket.timeout or socket.error.
Tcp_send_command(t) ==
    /\ driver = "tcp"
    /\ t \in callers
    /\ pc[t] = "cmd"
    /\ lock = NoThread
    /\ IF TcpNotConnected THEN
            /\ Finish(t, IF call[t].op \in BoolOps THEN RetFalse ELSE RetNone)
            /\ UNCHANGED <<wrote, pending>>
       ELSE \E ok \in BOOLEAN :
            IF ok THEN
                /\ wrote' = [wrote EXCEPT ![t] = Append(@, call[t].cmd)]
                /\ pending' = Received(t, call[t].cmd)
                /\ IF call[t].op \in BoolOps THEN Finish(t, RetTrue)
                   ELSE Goto(t, "sent")
            ELSE
                /\ Finish(t, IF call[t].op \in BoolOps THEN RetFalse ELSE RetNone)
                /\ UNCHANGED <<wrote, pending>>
    /\ UNCHANGED <<driver, callers, override, timeVars, connVars, lock, holder, rx, timeouts, last_reply, cacheVars>>

\* What one _read_reply() of the tcp driver takes from the stream: all that
\* has arrived when the peer goes quiet.
TcpReplyData_nothing(stream) == <<>>
TcpReplyData(stream) == Flatten(stream)

\* EatonEMAT._read_reply (tcp): recv() until a quiet period, the peer's end of
\* stream, or the timeout.  fault: recv raised socket.error.
Tcp_read_reply(t) ==
    /\ driver = "tcp"
    /\ t \in callers
    /\ pc[t] = "sent"
    /\ IF TcpNotConnected THEN
            /\ Finish(t, RetNone)
            /\ UNCHANGED <<rx, timeouts>>
       ELSE \E fault \in BOOLEAN :
            IF fault THEN
                /\ Finish(t, RetNone)
                /\ UNCHANGED <<rx, timeouts>>
            ELSE
                /\ TimeoutAllowed
                /\ timeouts' = TimeoutCount
                /\ Finish(t, RetText(TcpReplyData(rx)))
                /\ rx' = <<>>
    /\ UNCHANGED <<driver, callers, override, timeVars, connVars, lock, holder, pending, last_reply, cacheVars, wrote>>

\* _read_reply() called on its own: the read of Tcp_read_reply follows.
ReadReplyCall == [NoCall EXCEPT !.op = "_read_reply"]
Tcp_call_read_reply(t) ==
    /\ driver = "tcp"
    /\ CanCall(t)
    /\ pc' = [pc EXCEPT ![t] = "sent"]
    /\ call' = [call EXCEPT ![t] = ReadReplyCall]
    /\ pre' = [pre EXCEPT ![t] = Cache]
    /\ UNCHANGED <<stage, ret, wrote>>
    /\ UNCHANGED <<driver, callers, override, timeVars, connVars, lock, holder, wireVars,
                   last_reply, cacheVars>>

\* ------------------------------------------------- Telnet: connect, disconnect
UserWrite == Cmd("<username>", "", "")
PassWrite == Cmd("<password>", "", "")
ExitWrite == Cmd("exit", "", "")

\* What _aconnect wrote: each credential supplied whose prompt was seen before
\* the deadline of _await_any_prompt_and_write.
LoginWrites(user, seenU, pass, seenP) ==
    (IF user /\ seenU THEN <<UserWrite>> ELSE <<>>)
    \o (IF pass /\ seenP THEN <<PassWrite>> ELSE <<>>)

\* EatonEMAT.connect with _aconnect.  valid: validate_connection_params; out:
\* "refused" (open_connection raised or timed out), "fault" (an exception
\* after the transport was opened: the stream broke, or the wait of _run
\* elapsed), "ready".
Tel_connect_from(t, valids) ==
    /\ \E valid \in valids, out \in {"refused", "fault", "ready"},
          user \in BOOLEAN, seenU \in BOOLEAN, pass \in BOOLEAN, seenP \in BOOLEAN :
        IF ~valid THEN
            /\ out = "refused" /\ ~user /\ ~seenU /\ ~pass /\ ~seenP
            /\ Returns(t, ConnectEnded("validation"), RetFalse, <<>>)
            /\ UNCHANGED <<connVars, wireVars>>
        ELSE IF out = "refused" THEN
            /\ ~user /\ ~seenU /\ ~pass /\ ~seenP
            /\ EnsureLoop
            /\ reader' = NoHandle
            /\ writer' = NoHandle
            /\ connected' = FALSE
            /\ rx' = <<>>
            /\ pending' = <<>>
            /\ timeouts' = timeouts
            /\ Returns(t, ConnectEnded("open"), RetFalse, <<>>)
            /\ UNCHANGED <<sock, opened>>
        ELSE
            /\ Cardinality(opened) < MaxConns
            /\ (seenU => user) /\ (seenP => pass)
            /\ EnsureLoop
            /\ opened' = opened \cup {NewHandle}
            /\ reader' = IF out = "ready" THEN NewHandle ELSE NoHandle
            /\ writer' = IF out = "ready" THEN NewHandle ELSE NoHandle
            /\ connected' = (out = "ready")
            /\ rx' = <<>>
            /\ pending' = <<>>
            /\ timeouts' = timeouts
            /\ Returns(t, ConnectWith(IF out = "ready" THEN "" ELSE "login", user, pass),
                       IF out = "ready" THEN RetTrue ELSE RetFalse,
                       LoginWrites(user, seenU, pass, seenP))
            /\ sock' = sock
    /\ UNCHANGED <<driver, callers, override, timeVars, lock, holder, last_reply, cacheVars>>

Tel_connect(t) ==
    /\ driver = "telnet"
    /\ CanCall(t)
    /\ Tel_connect_from(t, BOOLEAN)

\* connect() taken step by step up to its coroutine.  _run calls
\* _ensure_loop, which first looks whether a live loop is held.
Tel_ensure_loop_check(t) ==
    /\ driver = "telnet"
    /\ CanCall(t)
    /\ pc' = [pc EXCEPT ![t] = "ensure"]
    /\ call' = [call EXCEPT ![t] = ConnectCall]
    /\ stage' = [stage EXCEPT ![t] = IF loop THEN 1 ELSE 0]
    /\ pre' = [pre EXCEPT ![t] = Cache]
    /\ UNCHANGED <<ret, wrote>>
    /\ UNCHANGED <<driver, callers, override, timeVars, connVars, lock, holder, wireVars,
                   last_reply, cacheVars>>

\* _ensure_loop, after the look: the loop seen is returned, or a new loop and
\* thread are started and assigned, whatever the fields hold by now.
Tel_ensure_loop_start(t) ==
    /\ driver = "telnet"
    /\ t \in callers
    /\ pc[t] = "ensure"
    /\ IF stage[t] = 1 THEN UNCHANGED <<loop, loops>>
       ELSE /\ loops < MaxLoops
            /\ loop' = TRUE
            /\ loops' = loops + 1
    /\ pc' = [pc EXCEPT ![t] = "run"]
    /\ stage' = [stage EXCEPT ![t] = 0]
    /\ UNCHANGED <<call, ret, wrote, pre>>
    /\ UNCHANGED <<driver, callers, override, timeVars, connected, sock, reader, writer, opened,
                   lock, holder, wireVars, last_reply, cacheVars>>

\* The coroutine of connect() is submitted: it runs on the loop held, or, that
\* loop stopped by a disconnect() in between, never runs, and the wait of _run
\* elapses.
Tel_connect_run(t) ==
    /\ driver = "telnet"
    /\ t \in callers
    /\ pc[t] = "run"
    /\ IF loop THEN Tel_connect_from(t, {TRUE})
       ELSE /\ reader' = NoHandle
            /\ writer' = NoHandle
            /\ connected' = FALSE
            /\ Returns(t, ConnectEnded("login"), RetFalse, <<>>)
            /\ UNCHANGED <<driver, callers, override, timeVars, sock, loop, loops, opened,
                           lock, holder, wireVars, last_reply, cacheVars>>

\* EatonEMAT.disconnect with _adisconnect: the polite exit and the close run
\* on the loop, then the fields are cleared and the loop is stopped.  A
\* coroutine of another caller still on the loop never completes.
Tel_disconnect(t) ==
    /\ driver = "telnet"
    /\ CanCall(t)
    /\ opened' = Closed(writer)
    /\ reader' = NoHandle
    /\ writer' = NoHandle
    /\ last_reply' = NoneText
    /\ connected' = FALSE
    /\ loop' = FALSE
    /\ loops' = IF loop THEN loops - 1 ELSE loops
    /\ rx' = <<>>
    /\ pending' = <<>>
    /\ timeouts' = timeouts
    /\ pc' = [u \in Threads |->
                IF u = t THEN "ret" ELSE IF pc[u] = "read" THEN "stranded" ELSE pc[u]]
    /\ call' = [call EXCEPT ![t] = DisconnectCall]
    /\ ret' = [ret EXCEPT ![t] = RetNone]
    /\ wrote' = [wrote EXCEPT ![t] = IF writer # NoHandle THEN <<ExitWrite>> ELSE <<>>]
    /\ pre' = [pre EXCEPT ![t] = Cache]
    /\ UNCHANGED <<driver, callers, override, timeVars, lock, holder, sock, cacheVars, stage>>

\* ------------------------------------------------- Telnet: the public commands
\* Outlet arguments of get_atomic_value and get_item: integers, "x", omitted
\* (None) and another string.
OutletArgs == {Str(i) : i \in IntArgs} \cup {"x", "None", "y"}

\* Appended names after which the callers stop calling initialize().
MaxNames == 3

\* n < 1 or n > self.outlet_count
OutOfRange(n) == n < 1 \/ n > outlet_count

\* The range check alone, without the check of initialized.
OutletGuard_uninit(n) == ~OutOfRange(n)

\* The guards shared by outlet_on, outlet_off, outlet_status, reset_statistics
\* and set_autostart: initialized, then the range of n.
OutletGuard(n) == initialized /\ ~OutOfRange(n)

\* EatonEMAT.outlet_on (telnet).
Tel_outlet_on(t) ==
    /\ driver = "telnet"
    /\ CanCall(t)
    /\ \E n \in IntArgs :
        LET c == OpCall("outlet_on", "", Str(n), Cmd("cmd_outlet_on", Str(n), "")) IN
        IF OutletGuard(n) THEN Formatted(t, c, 0) ELSE Returns(t, c, RetFalse, <<>>)
    /\ UNCHANGED <<driver, callers, override, timeVars, connVars, lock, holder, wireVars, last_reply, cacheVars>>

\* EatonEMAT.outlet_off (telnet).
Tel_outlet_off(t) ==
    /\ driver = "telnet"
    /\ CanCall(t)
    /\ \E n \in IntArgs :
        LET c == OpCall("outlet_off", "", Str(n), Cmd("cmd_outlet_off", Str(n), "")) IN
        IF OutletGuard(n) THEN Formatted(t, c, 0) ELSE Returns(t, c, RetFalse, <<>>)
    /\ UNCHANGED <<driver, callers, override, timeVars, connVars, lock, holder, wireVars, last_reply, cacheVars>>

\* EatonEMAT.outlet_status (telnet).
Tel_outlet_status(t) ==
    /\ driver = "telnet"
    /\ CanCall(t)
    /\ \E n \in IntArgs :
        LET c == OpCall("outlet_status", "", Str(n),
                        Cmd("cmd_outlet_status", Str(n), "")) IN
        IF OutletGuard(n) THEN Formatted(t, c, 0) ELSE Returns(t, c, RetNone, <<>>)
    /\ UNCHANGED <<driver, callers, override, timeVars, connVars, lock, holder, wireVars, last_reply, cacheVars>>

\* EatonEMAT.reset_statistics.
Tel_reset_statistics(t) ==
    /\ driver = "telnet"
    /\ CanCall(t)
    /\ \E n \in IntArgs :
        LET c == OpCall("reset_statistics", "", Str(n),
                        Cmd("cmd_reset_statistics", Str(n), "")) IN
        IF OutletGuard(n) THEN Formatted(t, c, 0) ELSE Returns(t, c, RetFalse, <<>>)
    /\ UNCHANGED <<driver, callers, override, timeVars, connVars, lock, holder, wireVars, last_reply, cacheVars>>

\* p < 0 or p > 2
BadPolicy(p) == p < 0 \/ p > 2

\* EatonEMAT.set_autostart.
Tel_set_autostart(t) ==
    /\ driver = "telnet"
    /\ CanCall(t)
    /\ \E n \in IntArgs, p \in {-1, 0, 2, 3} :
        LET c == OpCall("set_autostart", Str(p), Str(n),
                        Cmd("cmd_set_auto_restart", Str(n), Str(p))) IN
        IF OutletGuard(n) /\ ~BadPolicy(p) THEN Formatted(t, c, 0)
        ELSE Returns(t, c, RetFalse, <<>>)
    /\ UNCHANGED <<driver, callers, override, timeVars, connVars, lock, holder, wireVars, last_reply, cacheVars>>

\* The template of an item of get_atomic_value: mapping_device, mapping_outlets.
AtomicDeviceTpl(item) ==
    CASE item = "manufacturer" -> "cmd_device_manufacturer"
      [] item = "model" -> "cmd_device_model"
      [] item = "version" -> "cmd_firmware_ver"
      [] item = "serial" -> "cmd_serial_number"
      [] item = "outlet_count" -> "cmd_outlet_count"
      [] OTHER -> ""
AtomicOutletTpl(item) ==
    CASE item = "status" -> "cmd_outlet_status"
      [] item = "name" -> "cmd_name"
      [] OTHER -> ""

\* get_atomic_value's checks of the outlet argument of an outlet item: an
\* integer needs initialized and the range, a string must be "x", and an
\* omitted n (None) is checked by neither.
AtomicOutletArgOk(n) ==
    IF IsInt(n) THEN initialized /\ ~OutOfRange(IntOf(n))
    ELSE n \in {"x", "None"}

\* The command get_atomic_value(item, n) sends, or NoCmd when it returns None
\* before sending.
AtomicCmd(item, n) ==
    IF item = "help" THEN NoCmd
    ELSE IF AtomicDeviceTpl(item) # "" THEN Cmd(AtomicDeviceTpl(item), "", "")
    ELSE IF AtomicOutletTpl(item) # "" /\ AtomicOutletArgOk(n)
         THEN Cmd(AtomicOutletTpl(item), n, "")
    ELSE NoCmd

\* get_atomic_value builds mapping_outlets first, formatting every outlet
\* template with n, whatever the item asked for.
AtomicRaises == \E tpl \in {"cmd_outlet_status", "cmd_name"} : FormatRaises(tpl)

\* EatonEMAT.get_atomic_value (telnet).
Tel_get_atomic_value(t) ==
    /\ driver = "telnet"
    /\ CanCall(t)
    /\ \E item \in {"model", "status", "bogus", "help"}, n \in OutletArgs :
        /\ item # "status" => n = "None"
        /\ LET c == OpCall("get_atomic_value", item, n, AtomicCmd(item, n)) IN
           IF AtomicRaises THEN Returns(t, c, RetRaise, <<>>)
           ELSE IF c.cmd = NoCmd THEN Returns(t, c, RetNone, <<>>)
           ELSE Proceeds(t, c, 0)
    /\ UNCHANGED <<driver, callers, override, timeVars, connVars, lock, holder, wireVars, last_reply, cacheVars>>

\* get_item's checks for an item of get_outlet_commands: initialized first,
\* then the range of an integer n; a string must be "x".
ItemOutletArgOk(n) ==
    /\ initialized
    /\ IsInt(n) => ~OutOfRange(IntOf(n))
    /\ n \in {"x", "y"} => n = "x"

\* The command get_item(item, n) sends, or NoCmd when it returns None before
\* sending.
ItemCmd(item, n) ==
    IF item = "outlet_status" THEN
        IF ItemOutletArgOk(n) THEN Cmd("get_outlet_commands.outlet_status", n, "")
        ELSE NoCmd
    ELSE IF item = "model" THEN Cmd("get_device_commands.model", "", "")
    ELSE NoCmd

\* EatonEMAT.get_item.
Tel_get_item(t) ==
    /\ driver = "telnet"
    /\ CanCall(t)
    /\ \E item \in {"model", "outlet_status", "bogus", "help"}, n \in OutletArgs :
        /\ item # "outlet_status" => n = "None"
        /\ LET c == OpCall("get_item", item, n, ItemCmd(item, n)) IN
           IF c.cmd = NoCmd THEN Returns(t, c, RetNone, <<>>) ELSE Proceeds(t, c, 0)
    /\ UNCHANGED <<driver, callers, override, timeVars, connVars, lock, holder, wireVars, last_reply, cacheVars>>

\* The seven queries of initialize(), in order.
InitCmd(k) ==
    CASE k = 1 -> Cmd("cmd_outlet_count", "", "")
      [] k = 2 -> Cmd("cmd_device_manufacturer", "", "")
      [] k = 3 -> Cmd("cmd_device_model", "", "")
      [] k = 4 -> Cmd("cmd_firmware_ver", "", "")
      [] k = 5 -> Cmd("cmd_serial_number", "", "")
      [] k = 6 -> Cmd("cmd_name", "x", "")
      [] OTHER -> Cmd("cmd_outlet_status", "x", "")

\* EatonEMAT.initialize: the connected check, then the first query.
Tel_initialize(t) ==
    /\ driver = "telnet"
    /\ CanCall(t)
    /\ Len(outlet_names) < MaxNames
    /\ LET c == OpCall("initialize", "", "", InitCmd(1)) IN
       IF ~connected THEN Returns(t, c, RetFalse, <<>>)
       ELSE IF AtomicRaises THEN Returns(t, c, RetRaise, <<>>)
       ELSE Proceeds(t, c, 1)
    /\ UNCHANGED <<driver, callers, override, timeVars, connVars, lock, holder, wireVars, last_reply, cacheVars>>

\* What initialize() does with the value v that query k returned: the cache
\* after it, and whether initialize goes on ("next"), raises, or is done.
InitProcess(c, k, v) ==
    CASE k = 1 ->
            IF v # NoneText /\ IsNumeric(v)
            THEN [cache |-> [c EXCEPT !.outlet_count = IntOfText(v)], out |-> "next"]
            ELSE [cache |-> c, out |-> "raise"]
      [] k = 2 -> [cache |-> [c EXCEPT !.manufacturer = v], out |-> "next"]
      [] k = 3 -> [cache |-> [c EXCEPT !.model = v], out |-> "next"]
      [] k = 4 -> [cache |-> [c EXCEPT !.version = v], out |-> "next"]
      [] k = 5 -> [cache |-> [c EXCEPT !.serial = v], out |-> "next"]
      [] k = 6 ->
            IF v = NoneText THEN [cache |-> c, out |-> "raise"]
            ELSE [cache |-> [c EXCEPT !.outlet_names = @ \o SplitPipe(v)],
                  out |-> "next"]
      [] OTHER ->
            IF v = NoneText THEN [cache |-> c, out |-> "raise"]
            ELSE LET fs == SplitPipe(v)
                     ok == LeadingInts(fs) IN
                 IF Len(ok) < Len(fs)
                 THEN [cache |-> [c EXCEPT !.outlet_onoff = @ \o ok], out |-> "raise"]
                 ELSE [cache |-> [c EXCEPT !.outlet_onoff = @ \o ok,
                                           !.initialized = TRUE],
                       out |-> "done"]

\* initialize() takes the value of its current query and goes on.
InitAdvance(t, v) ==
    LET r == InitProcess(Cache, stage[t], v) IN
    /\ SetCache(r.cache)
    /\ pre' = pre
    /\ IF r.out = "next" THEN
            /\ pc' = [pc EXCEPT ![t] = "cmd"]
            /\ stage' = [stage EXCEPT ![t] = @ + 1]
            /\ call' = [call EXCEPT ![t].cmd = InitCmd(stage[t] + 1)]
            /\ ret' = ret
       ELSE
            /\ pc' = [pc EXCEPT ![t] = "ret"]
            /\ ret' = [ret EXCEPT ![t] = IF r.out = "done" THEN RetTrue ELSE RetRaise]
            /\ UNCHANGED <<stage, call>>

\* _send_command returned False to the operation of caller t.
SendFailed(t) ==
    IF call[t].op = "initialize" THEN InitAdvance(t, NoneText)
    ELSE /\ Finish(t, IF call[t].op \in BoolOps THEN RetFalse ELSE RetNone)
         /\ UNCHANGED cacheVars

\* EatonEMAT._send_command (telnet), its first lines: the connected check.
Tel_send_command_check(t) ==
    /\ driver = "telnet"
    /\ t \in callers
    /\ pc[t] = "cmd"
    /\ IF ~connected \/ writer = NoHandle THEN SendFailed(t)
       ELSE Goto(t, "lock") /\ UNCHANGED cacheVars
    /\ UNCHANGED <<driver, callers, override, timeVars, connVars, lock, holder, wireVars, last_reply, wrote>>

\* _send_command takes the lock and _asend_and_read writes the command; a
\* writer that is gone by now fails the assert.
Tel_send_command_write(t) ==
    /\ driver = "telnet"
    /\ t \in callers
    /\ pc[t] = "lock"
    /\ lock = NoThread
    /\ EnsureLoop
    /\ IF writer = NoHandle THEN
            /\ Goto(t, "fail")
            /\ UNCHANGED <<lock, holder, wrote, pending>>
       ELSE
            /\ lock' = t
            /\ holder' = t
            /\ wrote' = [wrote EXCEPT ![t] = Append(@, call[t].cmd)]
            /\ pending' = Received(t, call[t].cmd)
            /\ Goto(t, "read")
    /\ UNCHANGED <<driver, callers, override, timeVars, connected, sock, reader, writer, opened,
                   rx, timeouts, last_reply, cacheVars>>

\* What _read_until_prompt accumulates: the responses that have arrived when
\* the prompt matches, or nothing when the deadline passes first.
TelReplyData(stream) == Flatten(stream)

\* The section under the lock ends: _read_until_prompt returns, the reply line
\* is taken and stored, the lock is released.  An exception (no reader, no
\* line terminator in the data) leaves the slot to the except branch.  A read
\* that ends on its deadline has accumulated nothing, and the peer never
\* answers the command it was waiting for.
Tel_send_command_read(t) ==
    /\ driver = "telnet"
    /\ t \in callers
    /\ pc[t] = "read"
    /\ lock' = NoThread
    /\ holder' = holder
    /\ IF reader = NoHandle THEN
            /\ Goto(t, "fail")
            /\ UNCHANGED <<rx, timeouts, last_reply>>
       ELSE
            /\ TimeoutAllowed
            /\ timeouts' = TimeoutCount
            /\ rx' = <<>>
            /\ IF HasReplyLine(TelReplyData(rx)) THEN
                    /\ last_reply' = ReplyLine(TelReplyData(rx))
                    /\ Goto(t, "sent")
               ELSE
                    /\ last_reply' = last_reply
                    /\ Goto(t, "fail")
    /\ pending' = IF reader # NoHandle /\ IsTimeout THEN <<>> ELSE pending
    /\ UNCHANGED <<driver, callers, override, timeVars, connVars, cacheVars, wrote>>

\* The elapsed wait of _run taken as the loss of the session: the handles
\* dropped, the flag cleared.
Tel_send_command_timeout_drops(t) ==
    /\ driver = "telnet"
    /\ t \in callers
    /\ pc[t] = "stranded"
    /\ lock' = NoThread
    /\ holder' = holder
    /\ Goto(t, "fail")
    /\ connected' = FALSE
    /\ reader' = NoHandle
    /\ writer' = NoHandle
    /\ UNCHANGED <<driver, callers, override, timeVars, sock, loop, loops, opened, wireVars,
                   last_reply,
                   cacheVars, wrote>>

\* The wait of _run elapses for a coroutine left on a stopped loop.
Tel_send_command_timeout(t) ==
    /\ driver = "telnet"
    /\ t \in callers
    /\ pc[t] = "stranded"
    /\ lock' = NoThread
    /\ holder' = holder
    /\ Goto(t, "fail")
    /\ UNCHANGED <<driver, callers, override, timeVars, connVars, wireVars, last_reply, cacheVars, wrote>>

\* The except branch of _send_command: the slot is cleared, False is returned.
Tel_send_command_except(t) ==
    /\ driver = "telnet"
    /\ t \in callers
    /\ pc[t] = "fail"
    /\ last_reply' = NoneText
    /\ SendFailed(t)
    /\ UNCHANGED <<driver, callers, override, timeVars, connVars, lock, holder, wireVars, wrote>>

\* EatonEMAT._read_reply (telnet): the buffered reply, "" for an empty slot,
\* None when not connected.
Tel_read_reply ==
    IF ~connected THEN NoneText
    ELSE IF last_reply # NoneText THEN last_reply ELSE EmptyText

\* _read_reply() called on its own (telnet): it hands back the slot.
Tel_call_read_reply(t) ==
    /\ driver = "telnet"
    /\ CanCall(t)
    /\ Returns(t, ReadReplyCall, RetText(Tel_read_reply), <<>>)
    /\ UNCHANGED <<driver, callers, override, timeVars, connVars, lock, holder, wireVars,
                   last_reply, cacheVars>>

\* The update made to every cached status instead of the one of outlet n.
SetOnOff_all(t, v) ==
    /\ Finish(t, RetTrue)
    /\ outlet_onoff' = [i \in 1..Len(outlet_onoff) |-> v]
    /\ UNCHANGED <<initialized, outlet_count, outlet_names,
                   manufacturer, model, version, serial>>

\* outlet_on / outlet_off after _send_command returned True:
\* self.outlet_onoff[n-1] = v, an IndexError when the list is shorter.
SetOnOff(t, v) ==
    LET i == IntOf(call[t].n) IN
    IF i > Len(outlet_onoff) THEN
        /\ Finish(t, RetRaise)
        /\ UNCHANGED cacheVars
    ELSE
        /\ Finish(t, RetTrue)
        /\ outlet_onoff' = [outlet_onoff EXCEPT ![i] = v]
        /\ UNCHANGED <<initialized, outlet_count, outlet_names,
                       manufacturer, model, version, serial>>

\* What the operation does once _send_command has returned True.
Tel_after_send(t) ==
    /\ driver = "telnet"
    /\ t \in callers
    /\ pc[t] = "sent"
    /\ CASE call[t].op = "outlet_on" -> SetOnOff(t, 1)
         [] call[t].op = "outlet_off" -> SetOnOff(t, 0)
         [] call[t].op = "initialize" -> InitAdvance(t, Tel_read_reply)
         [] call[t].op \in TextOps ->
                Finish(t, RetText(Tel_read_reply)) /\ UNCHANGED cacheVars
         [] OTHER -> Finish(t, RetTrue) /\ UNCHANGED cacheVars
    /\ UNCHANGED <<driver, callers, override, timeVars, connVars, lock, holder, wireVars, last_reply, wrote>>

\* ------------------------------------------------------ the reads, with time
\* Time in ticks.  Timeout: read_timeout; Slice: max(0.05, timeout / 10), the
\* wait of one reader.read(); Nap: the 0.05 s sleep after an empty read.
Timeout == 4
Slice == 1
Nap == 1

\* Bytes of the peer that belong to no response and hold no line terminator
\* and no prompt.
Noise == <<Tok(NoTag, "val", <<"~">>)>>

\* A prompt of the peer that follows no echo and no line terminator.
BarePrompt == <<Tok(NoTag, "prompt", <<>>)>>

\* What the peer can deliver to a blocked read: the responses that have
\* arrived, other bytes or a bare prompt once a tick has passed, or the end
\* of the stream.
ChunkKinds == {"data", "noise", "prompt", "eof"}
ChunkArrives(kind) ==
    CASE kind = "data" -> rx # <<>>
      [] kind \in {"noise", "prompt"} -> wait >= 1
      [] OTHER -> TRUE
ChunkOf(kind) ==
    CASE kind = "data" -> Flatten(rx)
      [] kind = "noise" -> Noise
      [] kind = "prompt" -> BarePrompt
      [] OTHER -> <<>>

\* The read is over: its clock and buffer are dropped.
ReadEnds ==
    /\ clock' = 0
    /\ wait' = 0
    /\ buff' = <<>>

\* EatonEMAT._read_reply (tcp), one recv() that returns a chunk: an empty
\* chunk ends the loop, another is appended and ends the loop only when the
\* time since the start exceeds the timeout.
Tcp_recv(t) ==
    /\ driver = "tcp"
    /\ t \in callers
    /\ pc[t] = "sent"
    /\ IF TcpNotConnected THEN
            /\ Finish(t, RetNone)
            /\ ReadEnds
            /\ rx' = rx
       ELSE \E kind \in ChunkKinds :
            /\ ChunkArrives(kind)
            /\ rx' = IF kind = "data" THEN <<>> ELSE rx
            /\ IF kind = "eof" \/ clock > Timeout THEN
                    /\ Finish(t, RetText(buff \o ChunkOf(kind)))
                    /\ ReadEnds
               ELSE
                    /\ buff' = buff \o ChunkOf(kind)
                    /\ wait' = 0
                    /\ clock' = clock
                    /\ UNCHANGED thVars
    /\ UNCHANGED <<driver, callers, override, connVars, lock, holder, pending, timeouts, last_reply,
                   cacheVars, wrote>>

\* EatonEMAT._read_reply (tcp): recv() raises socket.timeout after the socket
\* timeout.
Tcp_recv_timeout(t) ==
    /\ driver = "tcp"
    /\ t \in callers
    /\ pc[t] = "sent"
    /\ wait = Timeout
    /\ Finish(t, RetText(buff))
    /\ ReadEnds
    /\ UNCHANGED <<driver, callers, override, connVars, lock, holder, wireVars, last_reply, cacheVars,
                   wrote>>

\* _read_until_prompt returns data: the reply line is stored and the lock
\* released, or the missing line terminator raises.
TelReadReturns(t, data) ==
    /\ lock' = NoThread
    /\ holder' = holder
    /\ ReadEnds
    /\ IF HasReplyLine(data) THEN
            /\ last_reply' = ReplyLine(data)
            /\ Goto(t, "sent")
       ELSE
            /\ last_reply' = last_reply
            /\ Goto(t, "fail")

\* _read_until_prompt, the head of its loop: while time.time() < deadline.
Tel_poll(t) ==
    /\ driver = "telnet"
    /\ t \in callers
    /\ pc[t] = "read"
    /\ IF clock < Timeout THEN
            /\ Goto(t, "slice")
            /\ wait' = 0
            /\ UNCHANGED <<clock, buff, lock, holder, last_reply>>
       ELSE TelReadReturns(t, buff)
    /\ UNCHANGED <<driver, callers, override, connVars, wireVars, cacheVars, wrote>>

\* _read_until_prompt, reader.read() returns within its slice: a chunk is
\* appended and a prompt ends the loop; an empty chunk leads to the sleep.
Tel_chunk(t) ==
    /\ driver = "telnet"
    /\ t \in callers
    /\ pc[t] = "slice"
    /\ \E kind \in ChunkKinds :
        /\ ChunkArrives(kind)
        /\ rx' = IF kind = "data" THEN <<>> ELSE rx
        /\ IF kind = "eof" THEN
                /\ Goto(t, "nap")
                /\ wait' = 0
                /\ UNCHANGED <<clock, buff, lock, holder, last_reply>>
           ELSE IF PromptMatch(buff \o ChunkOf(kind)) THEN
                TelReadReturns(t, buff \o ChunkOf(kind))
           ELSE
                /\ Goto(t, "read")
                /\ buff' = buff \o ChunkOf(kind)
                /\ UNCHANGED <<clock, wait, lock, holder, last_reply>>
    /\ UNCHANGED <<driver, callers, override, connVars, pending, timeouts, cacheVars, wrote>>

\* _read_until_prompt: asyncio.wait_for gives up after the slice.
Tel_slice_timeout(t) ==
    /\ driver = "telnet"
    /\ t \in callers
    /\ pc[t] = "slice"
    /\ wait = Slice
    /\ Goto(t, "nap")
    /\ wait' = 0
    /\ UNCHANGED <<driver, callers, override, connVars, lock, holder, wireVars, last_reply, cacheVars,
                   wrote, clock, buff>>

\* _read_until_prompt: asyncio.sleep(0.05) is over.
Tel_nap_done(t) ==
    /\ driver = "telnet"
    /\ t \in callers
    /\ pc[t] = "nap"
    /\ wait = Nap
    /\ Goto(t, "read")
    /\ UNCHANGED <<driver, callers, override, connVars, lock, holder, wireVars, last_reply, cacheVars,
                   wrote, timeVars>>

\* The limit of the blocking call caller t is in, if it is in one.
Blocked(t) ==
    \/ driver = "tcp" /\ pc[t] = "sent"
    \/ driver = "telnet" /\ pc[t] \in {"slice", "nap"}
WaitLimit(t) ==
    IF driver = "tcp" THEN Timeout ELSE IF pc[t] = "slice" THEN Slice ELSE Nap

\* A tick passes while a caller is blocked, its call not yet due to return.
Tick ==
    /\ \E t \in callers : Blocked(t) /\ wait < WaitLimit(t)
    /\ clock' = clock + 1
    /\ wait' = wait + 1
    /\ UNCHANGED <<driver, callers, override, connVars, lock, holder, wireVars, last_reply, cacheVars,
                   thVars, buff>>

\* The steps of one caller at a time: every public operation of both drivers.
TelNext ==
    \/ \E t \in Threads : Tel_connect(t)
    \/ \E t \in Threads : Tel_disconnect(t)
    \/ \E t \in Threads : Tel_outlet_on(t)
    \/ \E t \in Threads : Tel_outlet_off(t)
    \/ \E t \in Threads : Tel_outlet_status(t)
    \/ \E t \in Threads : Tel_reset_statistics(t)
    \/ \E t \in Threads : Tel_set_autostart(t)
    \/ \E t \in Threads : Tel_get_atomic_value(t)
    \/ \E t \in Threads : Tel_get_item(t)
    \/ \E t \in Threads : Tel_initialize(t)
    \/ \E t \in Threads : Tel_send_command_check(t)
    \/ \E t \in Threads : Tel_send_command_write(t)
    \/ \E t \in Threads : Tel_send_command_read(t)
    \/ \E t \in Threads : Tel_send_command_except(t)
    \/ \E t \in Threads : Tel_after_send(t)

TcpNext ==
    \/ \E t \in Threads : Tcp_connect(t)
    \/ \E t \in Threads : Tcp_disconnect(t)
    \/ \E t \in Threads : Tcp_outlet_on(t)
    \/ \E t \in Threads : Tcp_outlet_off(t)
    \/ \E t \in Threads : Tcp_outlet_status(t)
    \/ \E t \in Threads : Tcp_get_atomic_value(t)
    \/ \E t \in Threads : Tcp_send_command(t)
    \/ \E t \in Threads : Tcp_read_reply(t)

Next ==
    \/ TcpNext
    \/ TelNext
    \/ \E t \in Threads : Return(t)
    \/ DeviceRespond

\* Two callers sharing one instance: connecting, disconnecting and querying.
NextConc ==
    \/ \E t \in Threads : Tcp_connect(t)
    \/ \E t \in Threads : Tcp_disconnect(t)
    \/ \E t \in Threads : Tcp_outlet_status(t)
    \/ \E t \in Threads : Tcp_send_command(t)
    \/ \E t \in Threads : Tcp_read_reply(t)
    \/ \E t \in Threads : Tel_connect(t)
    \/ \E t \in Threads : Tel_disconnect(t)
    \/ \E t \in Threads : Tel_get_atomic_value(t)
    \/ \E t \in Threads : Tel_send_command_check(t)
    \/ \E t \in Threads : Tel_send_command_write(t)
    \/ \E t \in Threads : Tel_send_command_read(t)
    \/ \E t \in Threads : Tel_send_command_timeout(t)
    \/ \E t \in Threads : Tel_send_command_except(t)
    \/ \E t \in Threads : Tel_after_send(t)
    \/ \E t \in Threads : Return(t)
    \/ DeviceRespond

\* One caller querying, the reads taken tick by tick.
NextTime ==
    \/ \E t \in Threads : Tcp_connect(t)
    \/ \E t \in Threads : Tcp_get_atomic_value(t)
    \/ \E t \in Threads : Tcp_send_command(t)
    \/ \E t \in Threads : Tcp_recv(t)
    \/ \E t \in Threads : Tcp_recv_timeout(t)
    \/ \E t \in Threads : Tel_connect(t)
    \/ \E t \in Threads : Tel_get_atomic_value(t)
    \/ \E t \in Threads : Tel_send_command_check(t)
    \/ \E t \in Threads : Tel_send_command_write(t)
    \/ \E t \in Threads : Tel_poll(t)
    \/ \E t \in Threads : Tel_chunk(t)
    \/ \E t \in Threads : Tel_slice_timeout(t)
    \/ \E t \in Threads : Tel_nap_done(t)
    \/ \E t \in Threads : Tel_send_command_except(t)
    \/ \E t \in Threads : Tel_after_send(t)
    \/ \E t \in Threads : Return(t)
    \/ DeviceRespond
    \/ Tick

\* One caller that reassigns a template attribute and goes on calling.
NextTpl ==
    \/ SetTemplate
    \/ \E t \in Threads : Tcp_connect(t)
    \/ \E t \in Threads : Tcp_outlet_on(t)
    \/ \E t \in Threads : Tcp_get_atomic_value(t)
    \/ \E t \in Threads : Tcp_send_command(t)
    \/ \E t \in Threads : Tcp_read_reply(t)
    \/ \E t \in Threads : Tel_connect(t)
    \/ \E t \in Threads : Tel_initialize(t)
    \/ \E t \in Threads : Tel_outlet_on(t)
    \/ \E t \in Threads : Tel_outlet_status(t)
    \/ \E t \in Threads : Tel_get_atomic_value(t)
    \/ \E t \in Threads : Tel_send_command_check(t)
    \/ \E t \in Threads : Tel_send_command_write(t)
    \/ \E t \in Threads : Tel_send_command_read(t)
    \/ \E t \in Threads : Tel_send_command_except(t)
    \/ \E t \in Threads : Tel_after_send(t)
    \/ \E t \in Threads : Return(t)
    \/ DeviceRespond

\* One caller that also calls _read_reply() between its commands.
NextRead ==
    \/ \E t \in Threads : Tcp_connect(t)
    \/ \E t \in Threads : Tcp_outlet_on(t)
    \/ \E t \in Threads : Tcp_outlet_status(t)
    \/ \E t \in Threads : Tcp_send_command(t)
    \/ \E t \in Threads : Tcp_call_read_reply(t)
    \/ \E t \in Threads : Tcp_read_reply(t)
    \/ \E t \in Threads : Tel_connect(t)
    \/ \E t \in Threads : Tel_disconnect(t)
    \/ \E t \in Threads : Tel_get_atomic_value(t)
    \/ \E t \in Threads : Tel_send_command_check(t)
    \/ \E t \in Threads : Tel_send_command_write(t)
    \/ \E t \in Threads : Tel_send_command_read(t)
    \/ \E t \in Threads : Tel_send_command_except(t)
    \/ \E t \in Threads : Tel_after_send(t)
    \/ \E t \in Threads : Tel_call_read_reply(t)
    \/ \E t \in Threads : Return(t)
    \/ DeviceRespond

\* Two callers connecting and disconnecting, _ensure_loop taken in its steps.
NextLoop ==
    \/ \E t \in Threads : Tel_ensure_loop_check(t)
    \/ \E t \in Threads : Tel_ensure_loop_start(t)
    \/ \E t \in Threads : Tel_connect_run(t)
    \/ \E t \in Threads : Tel_disconnect(t)
    \/ \E t \in Threads : Return(t)

Spec == Init /\ [][Next]_vars
InitLoop == InitConc /\ driver = "telnet"
SpecLoop == InitLoop /\ [][NextLoop]_vars
SpecRead == Init /\ [][NextRead]_vars
SpecTpl == Init /\ [][NextTpl]_vars
SpecConc == InitConc /\ [][NextConc]_vars
SpecTime == Init /\ [][NextTime]_vars

\* ------------------------------------------------------------------ claims
\* Caller t has written its command and has not finished reading the reply.
InFlight(t) ==
    /\ wrote[t] # <<>>
    /\ \/ driver = "tcp" /\ pc[t] = "sent"
       \/ driver = "telnet" /\ pc[t] \in {"read", "stranded"}

\* The tokens of the text an operation hands back to caller t.
Replied(t) == IF pc[t] = "ret" /\ ret[t].k = "text" THEN ret[t].v ELSE <<>>

\* C1: in both drivers the write of a command and the read of its reply are
\* one exclusive unit: while one caller has written and not yet read, no
\* other caller has written (write A, write B, read A is not reachable).
C1_ExclusiveWriteRead ==
    \A t, u \in callers : t # u => ~(InFlight(t) /\ InFlight(u))

\* C2: the reply an operation returns for its command B holds only the
\* device's response to B, never bytes of the response to an earlier command.
C2_ReplyIsolation ==
    \A t \in callers : \A i \in 1..Len(Replied(t)) :
        Replied(t)[i].of.cmd = call[t].cmd

\* C3: with several callers querying at once, the value a caller gets back is
\* the reply to a command this caller sent, never one captured for another.
C3_OwnReply ==
    \A t \in callers : \A i \in 1..Len(Replied(t)) :
        Replied(t)[i].of.by = t

\* disconnect() of caller t returns in this step.
DisconnectReturns(t) ==
    pc[t] = "idle" /\ pc'[t] = "ret" /\ call'[t].op = "disconnect"

\* The handles the driver holds.
Held == {sock, reader, writer} \ {NoHandle}

\* The state disconnect() leaves: not connected, no handle, no loop, no reply.
Disconnected ==
    /\ ~connected
    /\ Held = {}
    /\ ~loop
    /\ last_reply = NoneText

EmptyCache ==
    [initialized |-> FALSE, outlet_count |-> 0,
     outlet_names |-> <<>>, outlet_onoff |-> <<>>,
     manufacturer |-> EmptyText, model |-> EmptyText,
     version |-> EmptyText, serial |-> EmptyText]

\* C5: after disconnect() the outlet state cache is invalidated: initialized
\* is False and the counts, names, states and identity fields hold nothing of
\* the previous session.
C5_CacheInvalidated ==
    \A t \in callers :
        (pc[t] = "ret" /\ call[t].op = "disconnect") => Cache = EmptyCache

\* The operations that take an outlet index.
OutletOps == {"outlet_on", "outlet_off", "outlet_status", "reset_statistics",
              "set_autostart"}

\* Caller t is in get_atomic_value or get_item for an outlet item.
OutletItemCall(t) ==
    \/ call[t].op = "get_atomic_value" /\ call[t].item = "status"
    \/ call[t].op = "get_item" /\ call[t].item = "outlet_status"

\* Caller t is in an operation entered before a successful initialize().
CalledUninitialized(t) == pc[t] # "idle" /\ ~pre[t].initialized

\* The operation of caller t has written nothing, and if it has returned it
\* returned False or None.
FailsUnwritten(t) ==
    /\ wrote[t] = <<>>
    /\ pc[t] = "ret" => ret[t] \in {RetFalse, RetNone}

GuardedCall(t) ==
    \/ call[t].op \in OutletOps
    \/ call[t].op = "get_item" /\ call[t].item = "outlet_status"
    \/ call[t].op = "get_atomic_value" /\ call[t].item = "status" /\ IsInt(call[t].n)

CountFor(t) == IF driver = "tcp" THEN DeviceOutlets ELSE pre[t].outlet_count

\* Caller t is in an outlet operation with an index outside 1..outlet_count,
\* or in set_autostart with a policy outside {0, 1, 2}.
InvalidArgument(t) ==
    /\ pc[t] # "idle"
    /\ call[t].op \in OutletOps
    /\ \/ IntOf(call[t].n) < 1
       \/ IntOf(call[t].n) > CountFor(t)
       \/ call[t].op = "set_autostart" /\ call[t].item \notin {"0", "1", "2"}

\* C7: in both drivers an outlet operation given an index outside
\* 1..outlet_count, or set_autostart given a policy outside {0,1,2}, is
\* rejected with False/None before anything is written.
C7_RangeValidation ==
    \A t \in callers : InvalidArgument(t) => FailsUnwritten(t)

\* C8: no public operation raises to its caller; initialize() with a failed,
\* timed-out, empty or non-numeric query included.
C8_NeverRaises ==
    \A t \in callers : pc[t] = "ret" => ret[t] # RetRaise

\* The operations that execute commands.
CommandOps == OutletOps \cup {"get_atomic_value", "get_item", "initialize"}

\* C9: a command operation that returns False or None or raises leaves the
\* outlet state cache as it was when the operation was called.
C9_FailureKeepsCache ==
    \A t \in callers :
        (/\ pc[t] = "ret"
         /\ call[t].op \in CommandOps
         /\ ret[t] \in {RetFalse, RetNone, RetRaise}) => Cache = pre[t]

\* What a reply read may exceed the timeout by: one slice and one sleep.
Epsilon == Slice + Nap

\* C10: a reply read that began at time t returns no later than the timeout
\* plus a small constant after t: no read is still running after that.
C10_ReadBound ==
    \A t \in callers :
        (Blocked(t) \/ (driver = "telnet" /\ pc[t] = "read"))
            => clock <= Timeout + Epsilon

\* The step in which the reply read of caller t ends on its deadline: the
\* command was written, the transport is held, and nothing has arrived.
ReadTimesOut(t) ==
    /\ connected
    /\ wrote[t] # <<>>
    /\ IsTimeout
    /\ \/ driver = "tcp" /\ pc[t] = "sent" /\ sock # NoHandle
       \/ driver = "telnet" /\ pc[t] = "read" /\ reader # NoHandle
    /\ pc'[t] # pc[t]
    /\ timeouts' = timeouts + 1

\* The operations that return the reply text of one query.
QueryOps == {"get_atomic_value", "outlet_status"}

\* C11: in both drivers a query whose command was written and whose peer
\* sends nothing before the deadline returns the empty string: the read does
\* not end in the failure path, and what the operation returns is "".
C11_SilentPeerEmptyText ==
    [][\A t \in callers :
            (ReadTimesOut(t) /\ call[t].op \in QueryOps) =>
                /\ pc'[t] # "fail"
                /\ pc'[t] = "ret" => ret'[t] = RetText(EmptyText)
      ]_vars

\* Caller t takes a step inside a command operation.
CommandStep(t) ==
    /\ pc'[t] # pc[t]
    /\ pc'[t] # "idle"
    /\ call'[t].op \in CommandOps

\* C12: while the session is disconnected every operation other than connect
\* and disconnect fails with False/None, writes nothing, and leaves the
\* session disconnected with no handle.
C12_DisconnectedFails ==
    [][\A t \in callers :
            (~connected /\ CommandStep(t)) =>
                /\ ~connected'
                /\ connVars' = connVars
                /\ wrote'[t] = <<>>
                /\ pc'[t] = "ret" => ret'[t] \in {RetFalse, RetNone}
      ]_vars

\* outlet_on(1) has returned False, nothing written, on a session that was
\* initialized and then disconnected: only the connected check rejected it.
C12_Witness ==
    \E t \in callers :
        /\ ~connected
        /\ pc[t] = "ret"
        /\ call[t].op = "outlet_on"
        /\ call[t].n = "1"
        /\ pre[t].initialized
        /\ ret[t] = RetFalse
        /\ wrote[t] = <<>>

\* connect() of caller t has returned False after it passed the validation
\* of its parameters.
ConnectFailed(t) ==
    /\ pc[t] = "ret"
    /\ call[t].op = "connect"
    /\ call[t].item # "validation"
    /\ ret[t] = RetFalse

\* C13: a connect() that fails at the open, during the login exchange or the
\* readiness wait, or by the wait of the bridge, leaves the driver
\* disconnected, holding no handle, and no transport open.
C13_FailedConnectClean ==
    \A t \in callers :
        ConnectFailed(t) => (~connected /\ Held = {} /\ opened = {})

\* C14: when connect() returns, it has returned True exactly when the session
\* is connected, whatever the state it was called in and however the
\* validation and the open ended.
C14_ConnectResultIsState ==
    \A t \in callers :
        (pc[t] = "ret" /\ call[t].op = "connect") =>
            (ret[t] = RetTrue <=> connected)

\* No operation is in progress.
Quiescent == \A t \in callers : pc[t] = "idle"

\* C15: whenever initialized is True (and no operation is half way), the
\* cached outlet_names and outlet_onoff have exactly outlet_count entries
\* each, also after initialize() was called more than once.
C15_CacheShape ==
    (Quiescent /\ initialized) =>
        /\ Len(outlet_names) = outlet_count
        /\ Len(outlet_onoff) = outlet_count

\* outlet_on of caller t has returned.
OutletOnReturned(t) == pc[t] = "ret" /\ call[t].op = "outlet_on"

\* The one line outlet_on(n) is to write: the outlet-on template with n in
\* place of {n}.  An entry of `wrote` is one write of a text followed by the
\* line terminator.
OutletOnLine(n) == [tpl |-> "cmd_outlet_on", n |-> n, p |-> ""]

\* C16: outlet_on(n) that passed its checks on a connected (telnet:
\* initialized) session and succeeded has written exactly one line, the
\* outlet-on template with n substituted followed by the terminator; and
\* whatever its result, it has written nothing other than that line.
C16_OutletOnWritesOneLine ==
    \A t \in callers :
        OutletOnReturned(t) =>
            /\ wrote[t] \in {<<>>, <<OutletOnLine(call[t].n)>>}
            /\ ret[t] = RetTrue => wrote[t] = <<OutletOnLine(call[t].n)>>

C16_Witness ==
    \E t \in callers :
        /\ OutletOnReturned(t)
        /\ driver = "telnet"
        /\ pre[t].initialized
        /\ call[t].n = "2"
        /\ ret[t] = RetTrue
        /\ wrote[t] = <<OutletOnLine("2")>>

\* The status query of outlet n, and the peer's answer to it when caller t
\* sent it.
StatusQuery(n) == [tpl |-> "cmd_outlet_status", n |-> n, p |-> ""]
StatusAnswer(t, n) == [of |-> Tag(t, StatusQuery(n)), val |-> DeviceValue(StatusQuery(n))]

\* The text v holds the payload line of answer r.
Contains(v, r) == \E i \in 1..Len(v) : v[i] = Tok(r.of, "val", r.val)

\* Caller t's outlet_status(n) of the tcp driver is at its read, the stream
\* holds the peer's answer to its query and nothing else, and the read ends by
\* taking what arrived.
StatusAnswered(t) ==
    /\ driver = "tcp"
    /\ pc[t] = "sent"
    /\ call[t].op = "outlet_status"
    /\ rx = <<StatusAnswer(t, call[t].n)>>
    /\ pending = <<>>
    /\ pc'[t] = "ret"
    /\ rx' = <<>>

\* C17: tcp driver, nothing of an earlier command in the stream, the peer
\* answers the status query with R and goes quiet: outlet_status(n) has
\* written the status template for n with the terminator, once, and returns
\* a text that contains R.
C17_StatusReturnsReply ==
    [][\A t \in callers :
        StatusAnswered(t) =>
            /\ wrote[t] = <<StatusQuery(call[t].n)>>
            /\ ret'[t].k = "text"
            /\ Contains(ret'[t].v, StatusAnswer(t, call[t].n))]_vars

C17_Witness ==
    \E t \in callers :
        /\ driver = "tcp"
        /\ pc[t] = "ret"
        /\ call[t].op = "outlet_status"
        /\ call[t].n = "1"
        /\ wrote[t] = <<StatusQuery("1")>>
        /\ ret[t].k = "text"
        /\ Contains(ret[t].v, StatusAnswer(t, "1"))

\* The command templates a tcp driver is constructed with, each as the pieces
\* of its text around the placeholder {n}.
TcpTemplates(tpl) ==
    CASE tpl = "cmd_outlet_on" ->
            <<"set PDU.OutletSystem.Outlet[", "{n}", "].DelayBeforeStartup 0">>
      [] tpl = "cmd_outlet_off" ->
            <<"set PDU.OutletSystem.Outlet[", "{n}", "].DelayBeforeShutdown 0">>
      [] tpl = "cmd_outlet_status" ->
            <<"PDU.OutletSystem.Outlet[", "{n}", "].PresentStatus.SwitchOnOff">>
      [] tpl = "cmd_device_model" -> <<"PDU.PowerSummary.iManufacturer">>
      [] tpl = "cmd_firmware_ver" -> <<"PDU.PowerSummary.iVersion">>
      [] OTHER -> <<>>

\* template.format(n=n): n in the place of {n}.
Format(text, n) == [i \in 1..Len(text) |-> IF text[i] = "{n}" THEN n ELSE text[i]]

\* The default line terminator, and the bytes of one write of command c.
Eol == "\r\n"
Sent(c) == Format(TcpTemplates(c.tpl), c.n) \o <<Eol>>

\* Caller t's operation op of the tcp driver has written its command.
TcpWrote(t, op) == driver = "tcp" /\ call[t].op = op /\ wrote[t] # <<>>

\* C18: with the templates the tcp driver is constructed with, outlet_on(n)
\* sends "ol on <n>", outlet_status(n) sends "ol status <n>" and
\* get_atomic_value("model") sends "sys info", each followed by CR LF.
C18_DefaultTemplates ==
    \A t \in callers :
        /\ TcpWrote(t, "outlet_on") =>
                Sent(wrote[t][1]) = <<"ol on ", call[t].n, "\r\n">>
        /\ TcpWrote(t, "outlet_status") =>
                Sent(wrote[t][1]) = <<"ol status ", call[t].n, "\r\n">>
        /\ (TcpWrote(t, "get_atomic_value") /\ call[t].item = "model") =>
                Sent(wrote[t][1]) = <<"sys info", "\r\n">>

\* The deadline of caller t's command is exceeded at this step: its read
\* ends with no reply and no prompt, or the wait of the bridge elapses.
DeadlineExceeded(t) ==
    \/ ReadTimesOut(t)
    \/ driver = "telnet" /\ pc[t] = "stranded" /\ pc'[t] = "fail"

\* C19: a command whose deadline is exceeded leaves the connected flag and
\* the transport handles as they were, so that the next command needs no
\* reconnect.
C19_TimeoutKeepsSession ==
    [][\A t \in callers :
        DeadlineExceeded(t) => UNCHANGED <<connected, sock, reader, writer, opened>>]_vars

\* A query of the tcp driver has returned "" at its deadline: the session is
\* still connected and holds its socket.
C19_Witness ==
    \E t \in callers :
        /\ driver = "tcp"
        /\ timeouts = 1
        /\ pc[t] = "ret"
        /\ call[t].op \in QueryOps
        /\ wrote[t] # <<>>
        /\ ret[t] = RetText(EmptyText)
        /\ connected
        /\ sock \in opened

\* The command that entered the exclusive section last has left it with its
\* reply stored in the slot.
Stored(u) ==
    /\ u \in callers
    /\ holder = u
    /\ pc[u] \notin {"read", "stranded", "fail"}
    /\ last_reply # NoneText

\* The failed command of caller t puts the absent marker in the slot.
SlotCleared(t) ==
    /\ pc[t] = "fail"
    /\ pc'[t] # "fail"
    /\ last_reply' = NoneText

\* C20: the reply slot holds the outcome of the command that held the
\* exclusive section last: once a later command has stored its reply, a
\* command that held the section before it does not change the slot.
C20_LastHolderOwnsSlot ==
    [][\A t, u \in callers :
        (u # t /\ Stored(u) /\ SlotCleared(t)) => last_reply' = last_reply]_vars

\* The step changes a transport handle or the reply slot.
SharedMutated ==
    <<sock, reader, writer, last_reply>>' # <<sock, reader, writer, last_reply>>

\* The lock is free to be taken by the caller that makes the step, or that
\* caller holds it.
LockAvailable ==
    \/ lock = NoThread
    \/ \E t \in callers : lock = t /\ pc'[t] # pc[t]

\* C21: every change of a transport handle and of the reply slot is made
\* under the lock of command execution, those of disconnect(), of connect()
\* and of a failed command included; disconnect() therefore never acts
\* between the write and the read of another caller's command.
C21_MutationsUnderLock ==
    [][SharedMutated => LockAvailable]_vars

\* The credentials connect() of caller t was given, as the lines their
\* login exchange is to write, in order.
Supplied(t) ==
    (IF call[t].cmd.n = "username" THEN <<UserWrite>> ELSE <<>>)
    \o (IF call[t].cmd.p = "password" THEN <<PassWrite>> ELSE <<>>)

\* C22: telnet connect() with credentials returns True only if every
\* credential supplied was written once, in order, after its prompt was seen.
C22_LoginWritten ==
    \A t \in callers :
        (driver = "telnet" /\ pc[t] = "ret" /\ call[t].op = "connect" /\ ret[t] = RetTrue)
            => wrote[t] = Supplied(t)

\* The write of caller t's command on a connected tcp session fails:
\* sendall raised socket.error and nothing was written.
WriteFails(t) ==
    /\ driver = "tcp"
    /\ pc[t] = "cmd"
    /\ ~TcpNotConnected
    /\ pc'[t] = "ret"
    /\ wrote'[t] = wrote[t]

\* C23: when the transport signals an unrecoverable fault during a command
\* (here: the write fails with a socket error), the session is marked
\* disconnected by the time the operation returns.
C23_FaultDisconnects ==
    [][\A t \in callers : WriteFails(t) => ~connected']_vars

\* The operations that build their command from a cmd_* template.
TemplateOps == {"outlet_on", "outlet_off", "outlet_status", "reset_statistics",
                "set_autostart", "get_atomic_value"}

\* Caller t calls one of them while a template attribute holds a text that
\* str.format cannot fill in.
CalledWithBadTemplate(t) ==
    /\ override # NoOverride
    /\ ~WellFormed(override.text)
    /\ pc[t] = "idle"
    /\ pc'[t] # "idle"
    /\ call'[t].op \in TemplateOps

\* C24: with a template override that is malformed or names a placeholder
\* that is not supplied, no operation that uses a template raises, and the
\* operations that use another template go on as before.
C24_BadTemplateNeverRaises ==
    [][\A t \in callers : CalledWithBadTemplate(t) => ret'[t] # RetRaise]_vars

\* A _read_reply() that caller t called on its own returns at this step.
ReadReplyReturns(t) ==
    /\ pc[t] # "ret"
    /\ pc'[t] = "ret"
    /\ call'[t].op = "_read_reply"

\* C25: reading the last reply does not consume it: a _read_reply() leaves
\* the reply slot, the transport stream and the connected flag as they were,
\* so that the next _read_reply() returns the same text.
C25_ReadKeepsReply ==
    [][\A t \in callers :
        (connected /\ ReadReplyReturns(t)) => UNCHANGED <<last_reply, rx, connected>>]_vars

\* _read_until_prompt of caller t's command returns at this step because
\* the prompt matched in what it accumulated.
PromptReached(t) ==
    /\ driver = "telnet"
    /\ pc[t] = "slice"
    /\ pc'[t] \in {"sent", "fail"}

\* C26: the buffered reply is the line before the matched prompt line, and a
\* command whose accumulated text holds only a prompt, or no line terminator,
\* still succeeds, with an empty reply.
C26_PromptOnlySucceeds ==
    [][\A t \in callers : PromptReached(t) => pc'[t] = "sent"]_vars

\* outlet_on (v = 1) or outlet_off (v = 0) of the telnet driver has returned
\* True to caller t.
Switched(t, v) ==
    /\ driver = "telnet"
    /\ pc[t] = "ret"
    /\ call[t].op = (IF v = 1 THEN "outlet_on" ELSE "outlet_off")
    /\ ret[t] = RetTrue

\* C27: a successful outlet_on(n) / outlet_off(n) on an initialized telnet
\* session sets the cached status of outlet n to 1 / 0 with the one command
\* it wrote, and leaves the other cached statuses, the names, outlet_count
\* and the identity fields as they were at the call.
C27_OptimisticUpdate ==
    \A t \in callers : \A v \in {0, 1} :
        Switched(t, v) =>
            /\ pre[t].initialized
            /\ Len(wrote[t]) = 1
            /\ Cache = [pre[t] EXCEPT !.outlet_onoff[IntOf(call[t].n)] = v]

C27_Witness ==
    \E t \in callers :
        /\ Switched(t, 0)
        /\ call[t].n = "1"
        /\ pre[t].outlet_onoff = <<1, 0>>
        /\ outlet_onoff = <<0, 0>>
        /\ outlet_names = <<"A", "B">>

\* C28: whatever connect() and disconnect() calls were made, also connect()
\* on a connected session and connect() failing on a connected session, at
\* most one transport opened by the instance is open, and the driver holds it.
C28_OneTransport ==
    /\ Cardinality(opened) <= 1
    /\ opened \subseteq Held

\* C29: the telnet driver's loop is started on first use only, at most one
\* loop and loop thread of the instance exist at any time, also when two
\* callers make the first use together: the loop threads of the instance
\* that are running are the one it holds, or none.
C29_OneLoop ==
    /\ loops <= 1
    /\ loop => loops = 1

====
